---------------------------- MODULE Spec2Model ----------------------------
(***************************************************************************)
(* A model of src/lowess.py: the two locally weighted linear regressions   *)
(* lowess (scalar predictor) and lowessNd (vector predictor).              *)
(*                                                                         *)
(* Numbers.  The program computes in floating point; the model computes    *)
(* exactly, on inputs for which the program's arithmetic is exact too:     *)
(*   - predictors and responses are small integers;                        *)
(*   - the query point is a vector of integers over a common denominator   *)
(*     (x_star = num / den), so that 0.5 can be written;                   *)
(*   - a distance is carried as its square, scaled by den^2 (np.sort and   *)
(*     the comparison u < 1 only need the order, which squaring keeps);    *)
(*   - the normalised distance u = d / h is carried as the integer 2u, and *)
(*     the inputs are those whose every u is 0, 1/2 or >= 1, so that a     *)
(*     tricube weight is 1, 343/512 or 0: weights are carried as           *)
(*     numerators over WDen = 512;                                         *)
(*   - a coefficient is a reduced fraction <<num, den>>;                   *)
(*   - linalg.solve is exact: it raises exactly when det(A) = 0 (or when A *)
(*     is not finite), and otherwise returns the solution of A beta = b.   *)
(*                                                                         *)
(* Arrays.  A numpy array is a record [nd, r, c, v]: its number of         *)
(* dimensions (1 or 2), its rows and columns (a 1-D array of length K is   *)
(* one row of K columns, as numpy's broadcasting treats it) and its        *)
(* entries v[<<i, j>>].  nd = 0 marks the result of an operation numpy     *)
(* refuses (operands could not be broadcast together).                     *)
(***************************************************************************)
EXTENDS Integers, Sequences, FiniteSets, TLC

VARIABLES
    x_star,     \* query point: [num |-> array, den |-> Nat]
    x,          \* predictors: array
    y,          \* responses: array
    bandwidth,  \* bandwidth fraction <<p, q>> = p / q
    pc,         \* "ready" | "returned" | "raised"
    fn,         \* "none" | "lowess" | "lowessNd": the entry point called
    loc,        \* the locals the call assigned before it ended
    out         \* what the call returned, or the exception it raised

vars == <<x_star, x, y, bandwidth, pc, fn, loc, out>>

-----------------------------------------------------------------------------
(* Bounds of the input space.                                              *)

MaxN == 3
MaxCoord == 2
Resp == {0, 1}
Fractions == {<<1, 4>>, <<1, 2>>, <<2, 3>>, <<1, 1>>}

-----------------------------------------------------------------------------
(* Integer helpers.                                                        *)

Max(a, b) == IF a >= b THEN a ELSE b
Abs(a) == IF a < 0 THEN -a ELSE a

RECURSIVE Gcd(_, _)
Gcd(a, b) == IF b = 0 THEN Abs(a) ELSE Gcd(b, a % b)

RECURSIVE SumOver(_, _)
SumOver(S, f) ==
    IF S = {} THEN 0
    ELSE LET p == CHOOSE q \in S : TRUE IN f[p] + SumOver(S \ {p}, f)

(* Reduced fraction n / d, d # 0, with a positive denominator. *)
Frac(n, d) ==
    LET g == Gcd(n, d)
        s == IF d < 0 THEN -1 ELSE 1
    IN  <<(s * n) \div g, (s * d) \div g>>

-----------------------------------------------------------------------------
(* numpy arrays and broadcasting.                                          *)

(* v @@ NoEntries is v, written out entry by entry. *)
NoEntries == [p \in {} |-> 0]
Arr(nd, r, c, v) == [nd |-> nd, r |-> r, c |-> c, v |-> v @@ NoEntries]
Bad == Arr(0, 0, 0, NoEntries)
Idx(a) == (1 .. a.r) \X (1 .. a.c)

Vec(s) == Arr(1, 1, Len(s), [p \in {1} \X (1 .. Len(s)) |-> s[p[2]]])
Col(s) == Arr(2, Len(s), 1, [p \in (1 .. Len(s)) \X {1} |-> s[p[1]]])
Mat(rows) ==
    Arr(2, Len(rows), Len(rows[1]),
        [p \in (1 .. Len(rows)) \X (1 .. Len(rows[1])) |-> rows[p[1]][p[2]]])

(* a[i, j] of an array stretched to the broadcast shape. *)
At(a, p) == a.v[<<IF a.r = 1 THEN 1 ELSE p[1], IF a.c = 1 THEN 1 ELSE p[2]>>]

Compat(a, b) ==
    /\ a.nd # 0 /\ b.nd # 0
    /\ (a.r = b.r \/ a.r = 1 \/ b.r = 1)
    /\ (a.c = b.c \/ a.c = 1 \/ b.c = 1)

(* a * b *)
Mul(a, b) ==
    IF ~Compat(a, b) THEN Bad
    ELSE Arr(Max(a.nd, b.nd), Max(a.r, b.r), Max(a.c, b.c),
             [p \in (1 .. Max(a.r, b.r)) \X (1 .. Max(a.c, b.c)) |->
                 At(a, p) * At(b, p)])

(* np.sum(a) *)
NpSum(a) == SumOver(Idx(a), a.v)

(* a[:, [j]] *)
Column(a, j) == Arr(2, a.r, 1, [p \in (1 .. a.r) \X {1} |-> a.v[<<p[1], j>>]])

(* np.sort(a): ascending along the last axis, that is, within each row. *)
NpSort(a) ==
    Arr(a.nd, a.r, a.c,
        [p \in Idx(a) |->
            LET row == {a.v[<<p[1], j>>] : j \in 1 .. a.c}
            IN  CHOOSE v \in row :
                  /\ Cardinality({j \in 1 .. a.c : a.v[<<p[1], j>>] < v}) < p[2]
                  /\ Cardinality({j \in 1 .. a.c : a.v[<<p[1], j>>] <= v}) >= p[2]])


(* a.shape[0] *)
Shape0(a) == IF a.nd = 1 THEN a.c ELSE a.r

(* k * a, for an integer k *)
Scale(a, k) == Arr(a.nd, a.r, a.c, [p \in Idx(a) |-> k * a.v[p]])

(* a - b *)
Sub(a, b) ==
    IF ~Compat(a, b) THEN Bad
    ELSE Arr(Max(a.nd, b.nd), Max(a.r, b.r), Max(a.c, b.c),
             [p \in (1 .. Max(a.r, b.r)) \X (1 .. Max(a.c, b.c)) |->
                 At(a, p) - At(b, p)])

(* x - x_star, scaled by the query point's denominator. *)
Diff(xx, xs) == Sub(Scale(xx, xs.den), xs.num)

(* np.linalg.norm(a, axis=1) of a 2-D array, squared: one entry per row. *)
Norm2(a) ==
    Arr(1, 1, a.r,
        [p \in {1} \X (1 .. a.r) |->
            SumOver(1 .. a.c, [j \in 1 .. a.c |-> a.v[<<p[2], j>>] * a.v[<<p[2], j>>]])])

(* np.abs(a), entry by entry, squared as every distance is. *)
NpAbs(a) == Arr(a.nd, a.r, a.c, [p \in Idx(a) |-> a.v[p] * a.v[p]])

(* np.array(a, ndmin=2).T of a 1-D array: a column. *)
AsColumn(a) == Arr(2, a.c, 1, [p \in (1 .. a.c) \X {1} |-> a.v[<<1, p[1]>>]])

(* Faulty variants of Rank: r clamped to the last index; floor for ceil. *)
RankClamped(bw, n) ==
    LET r == (bw[1] * n + bw[2] - 1) \div bw[2]
    IN  IF r > n - 1 THEN n - 1 ELSE r
RankFloor(bw, n) == (bw[1] * n) \div bw[2]

(* int(np.ceil(bandwidth * n)) *)
Rank(bw, n) == (bw[1] * n + bw[2] - 1) \div bw[2]

(* a[r] of a 2-D array, r counted from 0: its row r + 1, a 1-D array. *)
Row(a, r) == Arr(1, 1, a.c, [p \in {1} \X (1 .. a.c) |-> a.v[<<r + 1, p[2]>>]])

(* Faulty variant of Normalised: d / (2 * h). *)
NormalisedWide(d, h) ==
    Arr(Max(d.nd, h.nd), Max(d.r, h.r), Max(d.c, h.c),
        [p \in (1 .. Max(d.r, h.r)) \X (1 .. Max(d.c, h.c)) |->
            IF At(d, p) >= 4 * At(h, p) THEN 2
            ELSE IF At(d, p) = 0 THEN 0 ELSE 1])

(* d / h on squared distances, as the integer 2u: 0 for u = 0, 1 for       *)
(* u = 1/2, 2 for every u >= 1 (and for the nan or inf that h = 0 gives:   *)
(* neither is below 1).                                                    *)
Normalised(d, h) ==
    Arr(Max(d.nd, h.nd), Max(d.r, h.r), Max(d.c, h.c),
        [p \in (1 .. Max(d.r, h.r)) \X (1 .. Max(d.c, h.c)) |->
            IF At(d, p) >= At(h, p) THEN 2
            ELSE IF At(d, p) = 0 THEN 0 ELSE 1])

(* The inputs whose normalised distances are all 0, 1/2 or >= 1. *)
HalfSteps(d, h) ==
    \A p \in Idx(d) :
        \/ d.v[p] >= h.v[<<1, 1>>]
        \/ d.v[p] = 0
        \/ 4 * d.v[p] = h.v[<<1, 1>>]

(* kernels.tricube: w(u) = (1 - |u|^3)^3 for |u| < 1, else 0; on u = u2/2  *)
(* this is (8 - u2^3)^3 / 512.                                             *)
WDen == (2 ^ 3) ^ 3
tricube(u) ==
    Arr(u.nd, u.r, u.c,
        [p \in Idx(u) |-> IF u.v[p] < 2 THEN (8 - u.v[p] ^ 3) ^ 3 ELSE 0])

(* np.hstack([np.ones((n, 1)), x]) *)
Extend(xx) ==
    Arr(2, xx.r, xx.c + 1,
        [p \in (1 .. xx.r) \X (1 .. xx.c + 1) |->
            IF p[2] = 1 THEN 1 ELSE xx.v[<<p[1], p[2] - 1>>]])

-----------------------------------------------------------------------------
(* scipy.linalg.solve(A, b) in exact arithmetic: A is a sequence of rows.  *)

Minor(Mx, j) ==
    [i \in 1 .. Len(Mx) - 1 |->
        [k \in 1 .. Len(Mx) - 1 |-> Mx[i + 1][IF k < j THEN k ELSE k + 1]]]

RECURSIVE Det(_)
Det(Mx) ==
    IF Len(Mx) = 1 THEN Mx[1][1]
    ELSE SumOver(1 .. Len(Mx),
                 [j \in 1 .. Len(Mx) |->
                     (IF j % 2 = 1 THEN 1 ELSE -1) * Mx[1][j] * Det(Minor(Mx, j))])

RECURSIVE GcdSeq(_)
GcdSeq(s) == IF s = <<>> THEN 0 ELSE Gcd(Head(s), GcdSeq(Tail(s)))

(* Each equation divided by the common factor of its coefficients and its  *)
(* right-hand side: the same system, in smaller numbers.                   *)
Reduced(A, b) ==
    [i \in 1 .. Len(A) |->
        LET g == GcdSeq(Append(A[i], b[i]))
        IN  IF g = 0 THEN Append(A[i], b[i])
            ELSE [k \in 1 .. Len(A) + 1 |-> Append(A[i], b[i])[k] \div g]]

(* np.zeros(k) *)
Zeros(k) == [i \in 1 .. k |-> <<0, 1>>]

(* Cramer's rule: the determinant of A and, when it is not 0, the solution *)
(* of A beta = b.                                                          *)
Cramer(A, b) ==
    LET n  == Len(A)
        E  == Reduced(A, b)
        Ar == [i \in 1 .. n |-> [k \in 1 .. n |-> E[i][k]]]
        dt == Det(Ar)
    IN  [dt |-> dt,
         beta |-> IF dt = 0 THEN <<>>
                  ELSE [k \in 1 .. n |->
                      Frac(Det([i \in 1 .. n |->
                              [l \in 1 .. n |-> IF l = k THEN E[i][n + 1] ELSE E[i][l]]]),
                           dt)]]

(* Faulty variant of Solve: a singular system yields zeros, no error. *)
SolveOrZeros(A, b) ==
    LET c == Cramer(A, b)
    IN  IF c.dt = 0 THEN [ok |-> TRUE, beta |-> Zeros(Len(A))]
        ELSE [ok |-> TRUE, beta |-> c.beta]

(* linalg.solve(A, b); ok = FALSE is LinAlgError("Matrix is singular."). *)
Solve(A, b) ==
    LET c == Cramer(A, b)
    IN  IF c.dt = 0 THEN [ok |-> FALSE, beta |-> <<>>]
        ELSE [ok |-> TRUE, beta |-> c.beta]

-----------------------------------------------------------------------------
(* The two entry points.  Each yields the ways the call can end: how (pc), *)
(* the locals it had assigned (loc) and what it returned or raised (out).  *)
(* There is one way, except when h = 0: d / h then holds nan, and what the *)
(* kernel makes of nan is not this file's to say.  Either it hands the nan *)
(* on (finite = FALSE: linalg.solve refuses the non-finite matrix with     *)
(* ValueError) or it gives the weight 0 (the matrix is zero, and           *)
(* linalg.solve raises LinAlgError).                                       *)

Loc0 ==
    [n |-> -1, dim |-> -1, d |-> Bad, r |-> -1, h |-> Bad, w |-> Bad,
     finite |-> TRUE, b |-> <<>>, A |-> <<>>]

Raise(kind, line, l) ==
    [pc |-> "raised", loc |-> l, out |-> [exc |-> kind, line |-> line]]

Return(v, l) == [pc |-> "returned", loc |-> l, out |-> v]

Finite(h) == IF h.v[<<1, 1>>] = 0 THEN BOOLEAN ELSE {TRUE}

(* lowessNd with the default kernel, kernels.tricube; the function never  *)
(* reads radial.                                                           *)
lowessNd(xs, xx, yy, bw) ==
    LET n  == Shape0(xx)
        L1 == [Loc0 EXCEPT !.n = n]
    IN
    IF xx.nd < 2 THEN {Raise("IndexError", 46, L1)} ELSE
    LET dim == xx.c
        df  == Diff(xx, xs)
        L2  == [L1 EXCEPT !.dim = dim]
    IN
    IF df.nd = 0 THEN {Raise("ValueError", 47, L2)} ELSE
    LET dist == Norm2(df)
        d    == AsColumn(dist)
        r    == Rank(bw, n)
        L3   == [L2 EXCEPT !.d = d, !.r = r]
    IN
    IF r >= d.r THEN {Raise("IndexError", 50, L3)} ELSE
    LET h     == Row(NpSort(d), r)
        w     == tricube(Normalised(d, h))
        x_ext == Extend(xx)
        rng   == 1 .. dim + 1
        yw    == [i \in rng |-> Mul(Mul(yy, w), Column(x_ext, i))]
        L4    == [L3 EXCEPT !.h = h, !.w = w]
    IN
    IF \E i \in rng : yw[i].nd = 0 THEN {Raise("ValueError", 62, L4)} ELSE
    LET b  == [i \in rng |-> NpSum(yw[i])]
        A  == [j \in rng |-> [i \in rng |->
                  NpSum(Mul(Mul(w, Column(x_ext, i)), Column(x_ext, j)))]]
        s  == Solve(A, b)
    IN  { Return([beta |-> IF finite /\ s.ok THEN s.beta ELSE Zeros(n + 1),
                  dist |-> dist],
                 [L4 EXCEPT !.b = b, !.A = A, !.finite = finite]) :
            finite \in Finite(h) }

lowess(xs, xx, yy, bw) ==
    LET n  == Shape0(xx)
        r  == Rank(bw, n)
        df == Diff(xx, xs)
        L1 == [Loc0 EXCEPT !.n = n, !.r = r]
    IN
    IF df.nd = 0 THEN {Raise("ValueError", 78, L1)} ELSE
    LET La == [L1 EXCEPT !.d = NpAbs(df)] IN
    IF df.nd < 2 THEN {Raise("AxisError", 79, La)} ELSE
    LET d  == AsColumn(Norm2(df))
        L2 == [La EXCEPT !.d = d]
    IN
    IF r >= d.r THEN {Raise("IndexError", 80, L2)} ELSE
    LET h   == Row(NpSort(d), r)
        w   == tricube(Normalised(d, h))
        wy  == Mul(w, yy)
        wyx == Mul(wy, xx)
        L3  == [L2 EXCEPT !.h = h, !.w = w]
    IN
    IF wy.nd = 0 \/ wyx.nd = 0 THEN {Raise("ValueError", 83, L3)} ELSE
    LET b  == <<NpSum(wy), NpSum(wyx)>>
        A  == <<<<NpSum(w), NpSum(Mul(w, xx))>>,
                <<NpSum(Mul(w, xx)), NpSum(Mul(Mul(w, xx), xx))>>>>
        s  == Solve(A, b)
        L4 == [L3 EXCEPT !.b = b, !.A = A]
    IN  { IF ~finite THEN Raise("ValueError", 87, [L4 EXCEPT !.finite = FALSE])
          ELSE IF ~s.ok THEN Raise("LinAlgError", 87, L4)
          ELSE Return([slope |-> s.beta[2], intercept |-> s.beta[1], w |-> w], L4) :
            finite \in Finite(h) }

-----------------------------------------------------------------------------
(* The inputs.                                                             *)

Query(s, den) == [num |-> Vec(s), den |-> den]

(* Whether the call's normalised distances are all 0, 1/2 or >= 1. *)
Exact(xs, xx, bw) ==
    LET df == Diff(xx, xs) IN
    (xx.nd = 2 /\ df.nd # 0 /\ Rank(bw, Shape0(xx)) < xx.r) =>
        LET d == AsColumn(Norm2(df))
        IN  HalfSteps(d, Row(NpSort(d), Rank(bw, Shape0(xx))))

Seqs(S, lo, hi) == UNION {[1 .. N -> S] : N \in lo .. hi}
Layouts(s) == {Vec(s), Col(s)}

(* Responses for the scalar predictors s: on a line a*x + c, off it, and   *)
(* one too many or one too few.                                            *)
Responses(s) ==
    LET lines == {[i \in 1 .. Len(s) |-> a * s[i] + c] : a \in Resp, c \in Resp}
        bump  == {[i \in 1 .. Len(s) |-> IF i = 1 THEN 1 ELSE 0]}
        more  == {Append([i \in 1 .. Len(s) |-> s[i]], 1)}
        fewer == IF Len(s) > 1 THEN {[i \in 1 .. Len(s) - 1 |-> s[i]]} ELSE {}
    IN  lines \cup bump \cup more \cup fewer

Chosen(q, xx, yy, bw) ==
    /\ Exact(q, xx, bw)
    /\ x_star = q
    /\ x = xx
    /\ y = yy
    /\ bandwidth = bw

(* Scalar predictors on a grid, as a 1-D array or as an N x 1 column; the  *)
(* query point is a number or, mismatched, a pair.                         *)
GridInputs ==
    \E s \in Seqs(0 .. MaxCoord, 1, MaxN) :
      \E q \in {Query(<<c>>, 1) : c \in 0 .. MaxCoord} \cup {Query(<<0, 0>>, 1)} :
        \E xx \in Layouts(s), t \in Responses(s), bw \in Fractions :
          \E yy \in Layouts(t) : Chosen(q, xx, yy, bw)

Points == {<<0, 0>>, <<1, 0>>, <<0, 1>>, <<1, 1>>, <<2, 0>>}
Planes == {<<0, 1, 1>>, <<1, 0, 1>>}
OnPlane(p, rows) ==
    [i \in 1 .. Len(rows) |-> p[1] + p[2] * rows[i][1] + p[3] * rows[i][2]]

(* Planar predictors (two to four points, four being distinct), with       *)
(* responses on a plane b0 + b1*x1 + b2*x2; the query point is (0, 0),     *)
(* (1/2, 1/2) or, mismatched, the number 0 or a triple.                    *)
PlaneInputs ==
    \E rows \in Seqs(Points, 2, 4) :
      /\ Len(rows) = 4 => Cardinality({rows[i] : i \in 1 .. 4}) = 4
      /\ \E q \in {Query(<<0, 0>>, 1), Query(<<1, 1>>, 2), Query(<<0>>, 1),
                   Query(<<0, 0, 0>>, 1)} :
           \E p \in Planes, bw \in Fractions :
             \E yy \in Layouts(OnPlane(p, rows)) : Chosen(q, Mat(rows), yy, bw)

(* The scenario x = [0,1,2,3,4], y = [0,1,2,3,4], x_star = 2, 0.8. *)
LineInputs ==
    \E xx \in Layouts(<<0, 1, 2, 3, 4>>), yy \in Layouts(<<0, 1, 2, 3, 4>>) :
        Chosen(Query(<<2>>, 1), xx, yy, <<4, 5>>)

-----------------------------------------------------------------------------
(* The state machine: an input is chosen, then one entry point is called.  *)

Init ==
    /\ (GridInputs \/ PlaneInputs \/ LineInputs)
    /\ pc = "ready"
    /\ fn = "none"
    /\ loc = Loc0
    /\ out = [exc |-> "none", line |-> 0]

Call_lowess ==
    /\ pc = "ready"
    /\ \E run \in lowess(x_star, x, y, bandwidth) :
        /\ pc' = run.pc
        /\ loc' = run.loc
        /\ out' = run.out
    /\ fn' = "lowess"
    /\ UNCHANGED <<x_star, x, y, bandwidth>>

Call_lowessNd ==
    /\ pc = "ready"
    /\ \E run \in lowessNd(x_star, x, y, bandwidth) :
        /\ pc' = run.pc
        /\ loc' = run.loc
        /\ out' = run.out
    /\ fn' = "lowessNd"
    /\ UNCHANGED <<x_star, x, y, bandwidth>>

Next == Call_lowess \/ Call_lowessNd

Spec == Init /\ [][Next]_vars

-----------------------------------------------------------------------------
(* Vocabulary of the properties.                                           *)

Called(f) == pc # "ready" /\ fn = f

(* N, the number of observations. *)
NObs == Shape0(x)

(* ceil(f * N) >= N, said without Rank: f * N > N - 1. *)
RankReachesN == bandwidth[1] * NObs > bandwidth[2] * (NObs - 1)

(* The line of h = np.sort(d)[r] in the entry point called. *)
RadiusLine == IF fn = "lowess" THEN 80 ELSE 50

(* The call reached the line of the radius step / assigned h there. *)
RadiusTried == pc = "returned" \/ (pc = "raised" /\ out.line >= RadiusLine)
RadiusFound == loc.h.nd # 0

(* The normal equations were built / linalg.solve refused them. *)
SystemBuilt == Len(loc.A) > 0
SolveFailed == SystemBuilt /\ (~loc.finite \/ ~Solve(loc.A, loc.b).ok)

(* Response i, whatever the layout of y. *)
Response(i) == IF y.nd = 1 THEN y.v[<<1, i>>] ELSE y.v[<<i, 1>>]

(* The element at 0-based index r of the entries of d in ascending order. *)
Ranked(d, r) ==
    CHOOSE v \in {d.v[p] : p \in Idx(d)} :
        /\ Cardinality({p \in Idx(d) : d.v[p] < v}) <= r
        /\ Cardinality({p \in Idx(d) : d.v[p] <= v}) > r

(* The x-values of a column x that carry a nonzero weight. *)
WeightedValues == {x.v[<<i, 1>>] : i \in {k \in 1 .. x.r : loc.w.v[<<k, 1>>] # 0}}

(* y has N entries and lies on b0 + b1*x1 + ... + bM*xM, p = (b0, ..., bM). *)
OnHyperplane(p) ==
    /\ Shape0(y) = NObs
    /\ \A i \in 1 .. NObs :
         Response(i) =
           p[1] + SumOver(1 .. x.c, [k \in 1 .. x.c |-> p[k + 1] * x.v[<<i, k>>]])

Square == <<<<0, 0>>, <<1, 0>>, <<0, 1>>, <<1, 1>>>>
Ramp == <<0, 1, 2, 3, 4>>

-----------------------------------------------------------------------------
(* C1: in both entry points the radius h is the element at 0-based index r *)
(* of the distances sorted ascending, whatever the order of the dataset.   *)
(* The program does not do this: np.sort sorts the N x 1 column d along    *)
(* its last axis, of length 1, so h is the distance of the observation at  *)
(* position r.                                                             *)
C1_RadiusIsRankedDistance ==
    (pc # "ready" /\ RadiusFound) => loc.h.v[<<1, 1>>] = Ranked(loc.d, loc.r)

(* C2: when linalg.solve fails in lowessNd the call returns a vector of    *)
(* zeros of length M + 1.  The program returns np.zeros(n + 1).            *)
C2_FallbackHasDimPlusOne ==
    (Called("lowessNd") /\ pc = "returned" /\ SolveFailed) =>
        /\ Len(out.beta) = x.c + 1
        /\ \A k \in 1 .. Len(out.beta) : out.beta[k] = <<0, 1>>

(* C3: whenever ceil(f * N) >= N the call raises and returns nothing; on   *)
(* an N x M dataset (with a query point that broadcasts against it) the    *)
(* exception is the IndexError of np.sort(d)[r]: r is neither clamped nor  *)
(* wrapped.                                                                *)
C3_RankOutOfRangeRaises ==
    (pc # "ready" /\ RankReachesN) =>
        /\ pc = "raised"
        /\ (x.nd = 2 /\ Compat(x, x_star.num)) =>
             (out.exc = "IndexError" /\ out.line = RadiusLine)

C3_Witness ==
    /\ Called("lowess") /\ x.nd = 2
    /\ NObs = 3 /\ bandwidth = <<1, 1>>
    /\ pc = "raised" /\ out.exc = "IndexError" /\ out.line = 80

(* C4, as stated: two points with distinct x-values and a bandwidth        *)
(* fraction that covers both are interpolated exactly by lowess.           *)
C4_TwoPointsInterpolated ==
    ( /\ Called("lowess") /\ x.nd = 2 /\ x.c = 1 /\ NObs = 2
      /\ x.v[<<1, 1>>] # x.v[<<2, 1>>]
      /\ y.nd = 2 /\ Shape0(y) = 2
      /\ RankReachesN ) =>
        /\ pc = "returned"
        /\ \A i \in 1 .. 2 :
             out.slope[1] * x.v[<<i, 1>>] * out.intercept[2]
               + out.intercept[1] * out.slope[2]
             = y.v[<<i, 1>>] * out.slope[2] * out.intercept[2]

(* C4, amended: on two scalar observations lowess never returns a line.   *)
(* With ceil(2f) >= 2 the radius step raises IndexError; otherwise r = 1,  *)
(* the second observation is at distance h and has weight 0, at most one   *)
(* observation carries weight, and the call ends at the latest in          *)
(* linalg.solve's error.                                                   *)
C4_TwoPointsNeverFit ==
    (Called("lowess") /\ NObs = 2 /\ (x.nd = 1 \/ x.c = 1)) =>
        /\ pc = "raised"
        /\ x.nd = 2 =>
             /\ out.line \in {80, 83, 87}
             /\ out.line = 80 <=> RankReachesN
             /\ out.line = 87 => Cardinality(WeightedValues) < 2

C4_Witness ==
    /\ Called("lowess") /\ x.nd = 2 /\ x.c = 1 /\ NObs = 2
    /\ x.v[<<1, 1>>] # x.v[<<2, 1>>]
    /\ y.nd = 2 /\ Shape0(y) = 2
    /\ bandwidth = <<1, 4>>
    /\ loc.w.v[<<1, 1>>] # 0
    /\ pc = "raised" /\ out.exc = "LinAlgError" /\ out.line = 87

(* C5: lowessNd recovers an exact plane, intercept first: responses on     *)
(* b0 + sum b_k x_k give beta = (b0, ..., bM); in particular the unit      *)
(* square with y = [0,1,1,2], x_star = [0.5,0.5] and the default bandwidth *)
(* gives beta = [0, 1, 1].                                                 *)
C5_PlaneRecovered ==
    Called("lowessNd") =>
        /\ \A p \in [1 .. x.c + 1 -> 0 .. 1] :
             (x.nd = 2 /\ OnHyperplane(p) /\ pc = "returned" /\ ~SolveFailed) =>
                 out.beta = [k \in 1 .. x.c + 1 |-> <<p[k], 1>>]
        /\ ( /\ x = Mat(Square) /\ y = Vec(<<0, 1, 1, 2>>)
             /\ x_star = Query(<<1, 1>>, 2) /\ bandwidth = <<2, 3>> ) =>
               (pc = "returned" /\ out.beta = <<<<0, 1>>, <<1, 1>>, <<1, 1>>>>)

(* C6: a call whose responses are not one per observation, or whose query  *)
(* point has not the dataset's dimensionality, fails with an error.        *)
C6_ShapeMismatchRejected ==
    ( /\ pc # "ready"
      /\ \/ Shape0(y) # NObs
         \/ x.nd = 2 /\ x_star.num.c # x.c ) =>
        pc = "raised"

(* C7: in lowess on scalar predictors, whenever fewer than two distinct    *)
(* x-values carry a nonzero weight, linalg.solve's error ends the call:    *)
(* no zero slope and intercept are returned, whereas lowessNd on the same  *)
(* inputs returns zeros.                                                   *)
C7_SingularLineRaises ==
    (pc # "ready" /\ x.nd = 2 /\ x.c = 1 /\ SystemBuilt
       /\ Cardinality(WeightedValues) < 2) =>
        IF fn = "lowess"
        THEN /\ pc = "raised" /\ out.line = 87
             /\ out.exc = IF loc.finite THEN "LinAlgError" ELSE "ValueError"
        ELSE /\ pc = "returned"
             /\ \A k \in 1 .. Len(out.beta) : out.beta[k] = <<0, 1>>

C7_Witness ==
    /\ Called("lowess") /\ x.nd = 2 /\ x.c = 1 /\ SystemBuilt
    /\ Cardinality({x.v[p] : p \in Idx(x)}) > 1
    /\ Cardinality(WeightedValues) = 1
    /\ pc = "raised" /\ out.exc = "LinAlgError" /\ out.line = 87

(* C8: lowess recovers exactly linear data, slope first: responses         *)
(* a*x_i + c and a non-singular system give (a, c); in particular          *)
(* x = y = [0,1,2,3,4], x_star = 2, bandwidth 0.8 give slope 1 and         *)
(* intercept 0.                                                            *)
C8_LineRecovered ==
    Called("lowess") =>
        /\ \A p \in [1 .. 2 -> 0 .. 1] :
             ( /\ x.c = 1 \/ x.nd = 1
               /\ Shape0(y) = NObs
               /\ \A i \in 1 .. NObs :
                    Response(i) = p[1] + p[2] * (IF x.nd = 1 THEN x.v[<<1, i>>]
                                                 ELSE x.v[<<i, 1>>])
               /\ RadiusFound => Cardinality(WeightedValues) > 1
               /\ ~RankReachesN ) =>
                 /\ pc = "returned"
                 /\ out.slope = <<p[2], 1>>
                 /\ out.intercept = <<p[1], 1>>
        /\ ( /\ x = Vec(Ramp) /\ y = Vec(Ramp)
             /\ x_star = Query(<<2>>, 1) /\ bandwidth = <<4, 5>> ) =>
               /\ pc = "returned"
               /\ out.slope = <<1, 1>>
               /\ out.intercept = <<0, 1>>

(* C9: for responses given as a length-N sequence, lowessNd's right-hand   *)
(* side has length M + 1 and b[k] = sum_i weight[i] * response[i] * X[i,k].*)
C9_RhsIsWeightedSum ==
    ( /\ Called("lowessNd") /\ Len(loc.b) > 0 /\ loc.finite
      /\ y.nd = 1 /\ Shape0(y) = NObs ) =>
        /\ Len(loc.b) = x.c + 1
        /\ \A k \in 1 .. x.c + 1 :
             loc.b[k] =
               SumOver(1 .. NObs,
                       [i \in 1 .. NObs |->
                           loc.w.v[<<i, 1>>] * y.v[<<1, i>>] * Extend(x).v[<<i, k>>]])

(* C10: the radius step succeeds if and only if ceil(f * N) <= N - 1, so   *)
(* a dataset of one observation raises for every bandwidth fraction, and a *)
(* dataset of at most two raises for the default 2/3: no such call returns *)
(* coefficients.                                                           *)
C10_RadiusStepSucceedsIff ==
    pc # "ready" =>
        /\ RadiusTried => (RadiusFound <=> ~RankReachesN)
        /\ (RadiusTried /\ ~RadiusFound) =>
             (pc = "raised" /\ out.exc = "IndexError" /\ out.line = RadiusLine)
        /\ NObs = 1 => pc = "raised"
        /\ (NObs <= 2 /\ bandwidth = <<2, 3>>) => pc = "raised"

C10_Witness ==
    /\ Called("lowessNd") /\ x.nd = 2
    /\ NObs = 2 /\ bandwidth = <<2, 3>>
    /\ RadiusTried /\ ~RadiusFound
    /\ pc = "raised" /\ out.exc = "IndexError" /\ out.line = 50

=============================================================================
